---- MODULE Spec2Model ----
(***************************************************************************)
(* Model of the reservation-to-occupancy pipeline (data_transformer.py)    *)
(* and of the forecasting helpers (forecasting.py).                        *)
(*                                                                         *)
(* Three specifications share the variables:                               *)
(*   Spec          expand_reservations_to_daily, then                      *)
(*                 aggregate_daily_occupancy on its result                 *)
(*   SpecEval      evaluate_model                                          *)
(*   SpecForecast  fit_auto_arima, then forecast_future                    *)
(* The variables of the functions a specification does not run keep their  *)
(* idle values.                                                            *)
(***************************************************************************)
EXTENDS Integers, Sequences, FiniteSets, TLC

\* ---------------------------------------------------------------- bounds
\* largest number of reservation rows in the caller's DataFrame
MaxRows == 2
\* calendar dates are day numbers 0..MaxDay
MaxDay == 3
\* largest number of candidate orders auto_arima's search visits
MaxCand == 2
\* largest forecast horizon requested
MaxPeriods == 2
\* information-criterion scores are 1..MaxIC
MaxIC == 2
\* largest length of a Series given to evaluate_model
MaxLen == 2
\* the values of a Series are 0..MaxValue
MaxValue == 2

VARIABLES
    pc,             \* position of the running function ("l33" = line 33, ...)
    err,            \* exception that left the function, "none" if none
    df,             \* the caller's reservations DataFrame (its rows)
    df_in,          \* value of df when expand_reservations_to_daily was called
    idx,            \* iterrows position in expand_reservations_to_daily
    daily_records,  \* list built by expand_reservations_to_daily
    daily_df,       \* DataFrame returned by expand_reservations_to_daily
    occupancy,      \* DataFrame returned by aggregate_daily_occupancy
    actual,         \* evaluate_model's actual Series
    predicted,      \* evaluate_model's predicted Series
    mae,            \* evaluate_model's local mae
    rmse,           \* evaluate_model's local rmse
    mape,           \* evaluate_model's local mape
    metrics,        \* what evaluate_model has returned: empty until it
                    \* returns, then the one dictionary returned
    candidates,     \* outcome of fitting each candidate order of the search
    cand,           \* position of auto_arima's search in candidates
    fits,           \* candidates the search has kept so far
    model,          \* model returned by fit_auto_arima: the position in
                    \* candidates of the fit returned, 0 while there is none
    n_periods,      \* forecast_future's horizon
    predict_calls,  \* number of calls of model.predict
    forecast,       \* forecast array returned by forecast_future
    conf_int        \* interval array returned by forecast_future

pipelineVars == <<df, df_in, idx, daily_records, daily_df, occupancy>>
evalVars == <<actual, predicted, mae, rmse, mape, metrics>>
forecastVars == <<candidates, cand, fits, model, n_periods, predict_calls,
                  forecast, conf_int>>
vars == <<pc, err, pipelineVars, evalVars, forecastVars>>

None == "None"

\* the variables of a function that is not running
PipelineIdle ==
    /\ df = << >>
    /\ df_in = << >>
    /\ idx = 1
    /\ daily_records = << >>
    /\ daily_df = None
    /\ occupancy = None

EvalIdle ==
    /\ actual = << >>
    /\ predicted = << >>
    /\ mae = None
    /\ rmse = None
    /\ mape = None
    /\ metrics = {}

ForecastIdle ==
    /\ candidates = << >>
    /\ cand = 1
    /\ fits = << >>
    /\ model = 0
    /\ n_periods = 0
    /\ predict_calls = 0
    /\ forecast = None
    /\ conf_int = None

\* ------------------------------------------------- data_transformer.py
\* A date cell is <<representation, day>>: a date string as read from a
\* file, or a pandas Timestamp.
Timestamp(d) == <<"datetime64", d>>
Day(cell) == cell[2]

\* pd.to_datetime on one cell: parses a string, leaves a Timestamp alone
to_datetime(cell) == Timestamp(Day(cell))

\* pd.date_range(start, end, inclusive=...) with daily frequency: the days
\* start, start+1, ... not beyond end; then, when start = end, the single
\* day is dropped only if inclusive is 'neither', and otherwise the
\* endpoints the inclusive argument excludes are dropped
DateRange(start, end, inclusive) ==
    LET closed == IF end < start THEN << >>
                  ELSE [j \in 1..(end - start + 1) |-> start + j - 1]
        dropL == IF inclusive \in {"right", "neither"} /\ Len(closed) > 0
                    /\ closed[1] = start
                 THEN Tail(closed) ELSE closed
        dropR == IF inclusive \in {"left", "neither"} /\ Len(dropL) > 0
                    /\ dropL[Len(dropL)] = end
                 THEN SubSeq(dropL, 1, Len(dropL) - 1) ELSE dropL
    IN IF start = end
       THEN (IF inclusive = "neither" THEN << >> ELSE closed)
       ELSE dropR

\* rows appended for one reservation row (lines 41-51): a copy of the row
\* with a 'date' field, one per day of the range
ExpandRow(name, row) ==
    LET date_range == DateRange(Day(row.arrival_date),
                                Day(row.departure_date), "left")
    IN [j \in 1..Len(date_range) |->
          [name |-> name,
           arrival_date |-> row.arrival_date,
           departure_date |-> row.departure_date,
           date |-> Timestamp(date_range[j])]]

\* pd.DataFrame(list of Series): the columns are the Series' fields; an
\* empty list gives a DataFrame with no columns at all
DataFrame(records) ==
    [columns |-> IF Len(records) = 0 THEN {}
                 ELSE {"arrival_date", "departure_date", "date"},
     rows |-> records]

\* the elements of a set of days as an ascending sequence
RECURSIVE SortedKeys(_)
SortedKeys(S) ==
    IF S = {} THEN << >>
    ELSE LET m == CHOOSE x \in S : \A y \in S : x <= y
         IN <<m>> \o SortedKeys(S \ {m})

\* a group-by that keeps one row per group instead of counting the group
GroupByFirst(rows) ==
    LET keys == SortedKeys({Day(rows[j].date) : j \in DOMAIN rows})
    IN [g \in 1..Len(keys) |-> [date |-> Timestamp(keys[g]), occupancy |-> 1]]

\* daily_df.groupby('date').size().reset_index(name='occupancy'): one row
\* per distinct date (group keys sorted), occupancy = size of the group
GroupBySize(rows) ==
    LET keys == SortedKeys({Day(rows[j].date) : j \in DOMAIN rows})
    IN [g \in 1..Len(keys) |->
          [date |-> Timestamp(keys[g]),
           occupancy |-> Cardinality({j \in DOMAIN rows :
                                        Day(rows[j].date) = keys[g]})]]

\* insertion of a row into a sequence sorted ascending by date (stable)
RECURSIVE InsertByDate(_, _)
InsertByDate(r, s) ==
    IF s = << >> THEN <<r>>
    ELSE IF Day(r.date) < Day(Head(s).date) THEN <<r>> \o s
    ELSE <<Head(s)>> \o InsertByDate(r, Tail(s))

\* a sort with the order reversed (ascending=False)
RECURSIVE SortValuesDescending(_)
SortValuesDescending(s) ==
    IF s = << >> THEN << >>
    ELSE LET rest == SortValuesDescending(SubSeq(s, 1, Len(s) - 1))
             r == s[Len(s)]
             before == SelectSeq(rest, LAMBDA x : Day(x.date) > Day(r.date))
             after == SelectSeq(rest, LAMBDA x : Day(x.date) <= Day(r.date))
         IN before \o <<r>> \o after

\* occupancy.sort_values('date')
RECURSIVE SortValues(_)
SortValues(s) ==
    IF s = << >> THEN << >>
    ELSE InsertByDate(s[Len(s)], SortValues(SubSeq(s, 1, Len(s) - 1)))

\* the reservations DataFrames a caller can pass: up to MaxRows rows, each
\* date column either all strings or all Timestamps
Days == 0..MaxDay
Reprs == {"str", "datetime64"}
ReservationFrames ==
    UNION {
      {[j \in 1..n |-> [arrival_date |-> <<ra, a[j]>>,
                        departure_date |-> <<rd, d[j]>>]] :
          a \in [1..n -> Days], d \in [1..n -> Days]} :
      n \in 0..MaxRows, ra \in Reprs, rd \in Reprs }

InitPipeline ==
    /\ df \in ReservationFrames
    /\ df_in = df
    /\ pc = "l33"
    /\ err = "none"
    /\ idx = 1
    /\ daily_records = << >>
    /\ daily_df = None
    /\ occupancy = None
    /\ EvalIdle
    /\ ForecastIdle

\* line 33: df[arrival_col] = pd.to_datetime(df[arrival_col])
ToDatetimeArrival ==
    /\ pc = "l33"
    /\ df' = [j \in DOMAIN df |->
                [df[j] EXCEPT !.arrival_date = to_datetime(@)]]
    /\ pc' = "l34"
    /\ UNCHANGED <<err, df_in, idx, daily_records, daily_df, occupancy, evalVars, forecastVars>>

\* line 34: df[departure_col] = pd.to_datetime(df[departure_col])
ToDatetimeDeparture ==
    /\ pc = "l34"
    /\ df' = [j \in DOMAIN df |->
                [df[j] EXCEPT !.departure_date = to_datetime(@)]]
    /\ pc' = "l39"
    /\ UNCHANGED <<err, df_in, idx, daily_records, daily_df, occupancy, evalVars, forecastVars>>

\* lines 39-51: one iteration of `for idx, row in df.iterrows()`
IterRow ==
    /\ pc = "l39"
    /\ idx <= Len(df)
    /\ daily_records' = daily_records \o ExpandRow(idx, df[idx])
    /\ idx' = idx + 1
    /\ UNCHANGED <<pc, err, df, df_in, daily_df, occupancy, evalVars, forecastVars>>

\* lines 54-56: the loop is over; daily_df = pd.DataFrame(daily_records)
ReturnDailyDf ==
    /\ pc = "l39"
    /\ idx > Len(df)
    /\ daily_df' = DataFrame(daily_records)
    /\ pc' = "l73"
    /\ UNCHANGED <<err, df, df_in, idx, daily_records, occupancy, evalVars, forecastVars>>

\* lines 73-76: aggregate_daily_occupancy(daily_df); groupby('date')
\* raises KeyError when the frame has no 'date' column
AggregateDailyOccupancy ==
    /\ pc = "l73"
    /\ IF "date" \notin daily_df.columns
       THEN /\ err' = "KeyError"
            /\ occupancy' = occupancy
       ELSE /\ occupancy' = SortValues(GroupBySize(daily_df.rows))
            /\ err' = err
    /\ pc' = "done"
    /\ UNCHANGED <<df, df_in, idx, daily_records, daily_df, evalVars, forecastVars>>

Next ==
    \/ ToDatetimeArrival
    \/ ToDatetimeDeparture
    \/ IterRow
    \/ ReturnDailyDf
    \/ AggregateDailyOccupancy

Init == InitPipeline

Spec == Init /\ [][Next]_vars

\* ------------------------------------------------ pipeline properties
\* the expansion has returned
Expanded == pc \in {"l73", "done"}
\* the aggregation has returned a value
Aggregated == pc = "done" /\ err = "none"

\* number of emitted records copied from reservation n that carry day x
RecordsOn(n, x) ==
    Cardinality({j \in DOMAIN daily_df.rows :
                   /\ daily_df.rows[j].name = n
                   /\ daily_df.rows[j].date = Timestamp(x)})
\* number of emitted records copied from reservation n
RecordsOf(n) ==
    Cardinality({j \in DOMAIN daily_df.rows : daily_df.rows[j].name = n})

\* C1: every reservation with arrival <= departure has exactly one emitted
\* record on each day d with arrival <= d < departure and none on any other
\* day, so departure - arrival records in all (none for a same-day stay),
\* and every emitted record belongs to a reservation of the input.
C1_OneRecordPerNight ==
    Expanded =>
      /\ \A j \in DOMAIN daily_df.rows :
            daily_df.rows[j].name \in DOMAIN df_in
      /\ \A n \in DOMAIN df_in :
            LET a == Day(df_in[n].arrival_date)
                d == Day(df_in[n].departure_date)
            IN a <= d =>
                 /\ \A x \in Days :
                       RecordsOn(n, x) = IF a <= x /\ x < d THEN 1 ELSE 0
                 /\ RecordsOf(n) = d - a

\* days carried by the records given to aggregate_daily_occupancy
InputDays == {Day(daily_df.rows[j].date) : j \in DOMAIN daily_df.rows}

RECURSIVE SumOccupancy(_)
SumOccupancy(s) ==
    IF s = << >> THEN 0 ELSE Head(s).occupancy + SumOccupancy(Tail(s))

\* C2: the returned series has exactly one entry per distinct date of the
\* input records and none for another date, each entry's occupancy is the
\* number of input records on that date, and the occupancies sum to the
\* number of input records.
C2_OneEntryPerDate ==
    Aggregated =>
      /\ {Day(occupancy[g].date) : g \in DOMAIN occupancy} = InputDays
      /\ Len(occupancy) = Cardinality(InputDays)
      /\ \A g \in DOMAIN occupancy :
            occupancy[g].occupancy =
              Cardinality({j \in DOMAIN daily_df.rows :
                             daily_df.rows[j].date = occupancy[g].date})
      /\ SumOccupancy(occupancy) = Len(daily_df.rows)

\* a series of several dates, one of them shared by two records
C2_Witness ==
    /\ Aggregated
    /\ Len(occupancy) >= 2
    /\ \E g \in DOMAIN occupancy : occupancy[g].occupancy >= 2

\* C3: the returned series is strictly ascending by date (so no date
\* appears twice), whatever the order of the input records.
C3_StrictlySorted ==
    Aggregated =>
      \A g, h \in DOMAIN occupancy :
         g < h => Day(occupancy[g].date) < Day(occupancy[h].date)

\* the input records were not in date order
C3_Witness ==
    /\ Aggregated
    /\ Len(occupancy) >= 2
    /\ \E j, l \in DOMAIN daily_df.rows :
          j < l /\ Day(daily_df.rows[j].date) > Day(daily_df.rows[l].date)

\* C4: expand_reservations_to_daily leaves the caller's reservations as
\* they were: after the call every row and field of df is the value it had
\* when the call was made.
C4_InputUnchanged == Expanded => df = df_in

\* every interval of the input satisfies arrival <= departure
ValidIntervals ==
    \A n \in DOMAIN df_in :
       Day(df_in[n].arrival_date) <= Day(df_in[n].departure_date)

\* C9: for every input whose intervals satisfy arrival <= departure the
\* pipeline completes without error, and an expansion of zero records
\* aggregates to the empty series.
C9_PipelineCompletes ==
    (pc = "done" /\ ValidIntervals) =>
      /\ err = "none"
      /\ (Len(daily_df.rows) = 0 => occupancy = << >>)

\* ------------------------------------------- forecasting.py: evaluate_model
\* A float is a fraction n/d in lowest terms (d > 0), NaN or infinity.
RECURSIVE GCD(_, _)
GCD(a, b) == IF b = 0 THEN a ELSE GCD(b, a % b)
AbsInt(n) == IF n < 0 THEN -n ELSE n

Num(n, d) ==
    LET sn == IF d < 0 THEN -n ELSE n
        sd == AbsInt(d)
        g == GCD(AbsInt(sn), sd)
    IN [kind |-> "num", n |-> sn \div g, d |-> sd \div g]
NaN == [kind |-> "nan", n |-> 0, d |-> 1]
Inf == [kind |-> "inf", n |-> 0, d |-> 1]

\* IEEE arithmetic as numpy does it (no negative value meets an infinity
\* here: infinities only appear under np.abs)
FSub(x, y) ==
    IF x.kind = "nan" \/ y.kind = "nan" THEN NaN
    ELSE Num(x.n * y.d - y.n * x.d, x.d * y.d)
FDiv(x, y) ==
    IF x.kind = "nan" \/ y.kind = "nan" THEN NaN
    ELSE IF y.n = 0 THEN (IF x.n = 0 THEN NaN ELSE Inf)
    ELSE Num(x.n * y.d, x.d * y.n)
FAbs(x) == IF x.kind = "num" THEN Num(AbsInt(x.n), x.d) ELSE x
FAdd(x, y) ==
    IF x.kind = "nan" \/ y.kind = "nan" THEN NaN
    ELSE IF x.kind = "inf" \/ y.kind = "inf" THEN Inf
    ELSE Num(x.n * y.d + y.n * x.d, x.d * y.d)
FTimes(k, x) == IF x.kind = "num" THEN Num(k * x.n, x.d) ELSE x
FSquare(x) == IF x.kind = "num" THEN Num(x.n * x.n, x.d * x.d) ELSE x

RECURSIVE FSum(_)
FSum(s) == IF s = << >> THEN Num(0, 1) ELSE FAdd(Head(s), FSum(Tail(s)))

\* a pandas Series: a sequence of [label, value]; the index is a run of
\* consecutive labels from `start`
Series(start, vals) ==
    [j \in 1..Len(vals) |-> [label |-> start + j - 1, value |-> Num(vals[j], 1)]]
Labels(s) == {s[j].label : j \in DOMAIN s}
\* the values of a Series as an array (np.asarray): labels dropped
Values(s) == [j \in DOMAIN s |-> s[j].value]
\* s.reindex(labels): the value at each label, NaN where s has none
ValueAt(s, l) ==
    IF l \in Labels(s)
    THEN (CHOOSE r \in {s[j] : j \in DOMAIN s} : r.label = l).value
    ELSE NaN

\* the binary operator of two Series: both operands are aligned on the
\* union of their labels, then combined label by label
SeriesSub(x, y) ==
    LET ls == SortedKeys(Labels(x) \cup Labels(y))
    IN [j \in 1..Len(ls) |->
          [label |-> ls[j], value |-> FSub(ValueAt(x, ls[j]), ValueAt(y, ls[j]))]]
SeriesDiv(x, y) ==
    LET ls == SortedKeys(Labels(x) \cup Labels(y))
    IN [j \in 1..Len(ls) |->
          [label |-> ls[j], value |-> FDiv(ValueAt(x, ls[j]), ValueAt(y, ls[j]))]]
\* np.abs of a Series: element by element
SeriesAbs(x) == [j \in DOMAIN x |-> [x[j] EXCEPT !.value = FAbs(@)]]
\* np.mean of a Series is Series.mean(): NaN entries are skipped, and the
\* mean of no entry is NaN
SeriesMean(x) ==
    LET kept == SelectSeq(Values(x), LAMBDA v : v.kind # "nan")
    IN IF Len(kept) = 0 THEN NaN
       ELSE FDiv(FSum(kept), Num(Len(kept), 1))

\* sklearn's validation of (y_true, y_pred), made by each metric before it
\* computes anything: no check at all
NoInputCheck(y_true, y_pred) == "none"

\* sklearn's validation of (y_true, y_pred), made by each metric before it
\* computes anything: the lengths must agree and be at least 1
CheckRegTargets(y_true, y_pred) ==
    IF Len(y_true) # Len(y_pred) THEN "ValueError"
    ELSE IF Len(y_true) = 0 THEN "ValueError"
    ELSE "none"

Min(a, b) == IF a < b THEN a ELSE b
\* sklearn works on the arrays of values: element i meets element i
MeanAbsoluteError(y_true, y_pred) ==
    LET n == Min(Len(y_true), Len(y_pred))
    IN FDiv(FSum([j \in 1..n |->
                    FAbs(FSub(Values(y_true)[j], Values(y_pred)[j]))]),
            Num(n, 1))
MeanSquaredError(y_true, y_pred) ==
    LET n == Min(Len(y_true), Len(y_pred))
    IN FDiv(FSum([j \in 1..n |->
                    FSquare(FSub(Values(y_true)[j], Values(y_pred)[j]))]),
            Num(n, 1))
\* np.sqrt is kept symbolic
Sqrt(x) == [sqrt |-> x]

\* the Series a caller can pass
IndexStarts == {0, 1, 100}
SeriesInputs ==
    UNION { {Series(st, v) : v \in [1..n -> 0..MaxValue]} :
            n \in 0..MaxLen, st \in IndexStarts }

InitEval ==
    /\ actual \in SeriesInputs
    /\ predicted \in SeriesInputs
    /\ pc = "l126"
    /\ err = "none"
    /\ mae = None
    /\ rmse = None
    /\ mape = None
    /\ metrics = {}
    /\ PipelineIdle
    /\ ForecastIdle

\* line 126: mae = mean_absolute_error(actual, predicted)
EvalMAE ==
    /\ pc = "l126"
    /\ IF CheckRegTargets(actual, predicted) # "none"
       THEN /\ err' = CheckRegTargets(actual, predicted)
            /\ pc' = "done"
            /\ mae' = mae
       ELSE /\ mae' = MeanAbsoluteError(actual, predicted)
            /\ pc' = "l127"
            /\ err' = err
    /\ UNCHANGED <<actual, predicted, rmse, mape, metrics, pipelineVars, forecastVars>>

\* line 127: rmse = np.sqrt(mean_squared_error(actual, predicted))
EvalRMSE ==
    /\ pc = "l127"
    /\ IF CheckRegTargets(actual, predicted) # "none"
       THEN /\ err' = CheckRegTargets(actual, predicted)
            /\ pc' = "done"
            /\ rmse' = rmse
       ELSE /\ rmse' = Sqrt(MeanSquaredError(actual, predicted))
            /\ pc' = "l128"
            /\ err' = err
    /\ UNCHANGED <<actual, predicted, mae, mape, metrics, pipelineVars, forecastVars>>

\* line 128: mape = np.mean(np.abs((actual - predicted) / actual)) * 100
EvalMAPE ==
    /\ pc = "l128"
    /\ mape' = FTimes(100, SeriesMean(SeriesAbs(
                   SeriesDiv(SeriesSub(actual, predicted), actual))))
    /\ pc' = "l130"
    /\ UNCHANGED <<err, actual, predicted, mae, rmse, metrics, pipelineVars, forecastVars>>

\* lines 130-134: return {'MAE': mae, 'RMSE': rmse, 'MAPE': mape}
EvalReturn ==
    /\ pc = "l130"
    /\ metrics' = {[MAE |-> mae, RMSE |-> rmse, MAPE |-> mape]}
    /\ pc' = "done"
    /\ UNCHANGED <<err, actual, predicted, mae, rmse, mape, pipelineVars, forecastVars>>

NextEval ==
    \/ EvalMAE
    \/ EvalRMSE
    \/ EvalMAPE
    \/ EvalReturn

SpecEval == InitEval /\ [][NextEval]_vars

SameIndex == [j \in DOMAIN actual |-> actual[j].label]
               = [j \in DOMAIN predicted |-> predicted[j].label]
HasZeroActual == \E j \in DOMAIN actual : actual[j].value = Num(0, 1)

\* C7: when an element of actual is 0, evaluate_model either fails or
\* returns a MAPE computed without the undefined points: the returned MAPE
\* is never infinity or NaN. (Stated for Series with the same index.)
C7_NoUndefinedMape ==
    (pc = "done" /\ HasZeroActual /\ SameIndex) =>
      \/ err = "UndefinedMetricError"
      \/ /\ err = "none"
         /\ \A m \in metrics : m.MAPE.kind = "num"

\* the three metrics over the pairs (actual[i], predicted[i]) by position
PositionalMAE ==
    FDiv(FSum([j \in DOMAIN actual |->
                 FAbs(FSub(actual[j].value, predicted[j].value))]),
         Num(Len(actual), 1))
PositionalMSE ==
    FDiv(FSum([j \in DOMAIN actual |->
                 FSquare(FSub(actual[j].value, predicted[j].value))]),
         Num(Len(actual), 1))
PositionalMAPE ==
    LET terms == [j \in DOMAIN actual |->
                    FAbs(FDiv(FSub(actual[j].value, predicted[j].value),
                              actual[j].value))]
        kept == SelectSeq(terms, LAMBDA v : v.kind # "nan")
    IN IF Len(kept) = 0 THEN NaN
       ELSE FTimes(100, FDiv(FSum(kept), Num(Len(kept), 1)))

\* C10: for equal-length Series, whatever their index labels, the returned
\* MAE, RMSE and MAPE are all computed over the positional pairs
\* (actual[i], predicted[i]). (Stated for an actual Series without zeros.)
C10_SamePairing ==
    (pc = "done" /\ err = "none" /\ ~HasZeroActual) =>
      \A m \in metrics :
         /\ m.MAE = PositionalMAE
         /\ m.RMSE = Sqrt(PositionalMSE)
         /\ m.MAPE = PositionalMAPE

\* ------------------------- forecasting.py: fit_auto_arima, forecast_future
\* What fitting one candidate order does: the optimizer converges, it stops
\* without converging (statsmodels then warns and still returns the fit), or
\* the fit raises a numerical error.
FitOutcomes == {"converged", "not_converged", "error"}
CandidateLists ==
    UNION { [1..n -> [outcome : FitOutcomes, ic : 1..MaxIC]] : n \in 1..MaxCand }

\* the keyword arguments fit_auto_arima passes (lines 65-73)
error_action == "ignore"

InitForecast ==
    /\ candidates \in CandidateLists
    /\ n_periods \in -1..MaxPeriods
    /\ cand = 1
    /\ fits = << >>
    /\ model = 0
    /\ predict_calls = 0
    /\ forecast = None
    /\ conf_int = None
    /\ pc = "l65"
    /\ err = "none"
    /\ PipelineIdle
    /\ EvalIdle

\* line 65, inside auto_arima: the search fits its next candidate. A fit
\* that raises is dropped unless error_action is 'raise'; a fit that only
\* warns is kept, and suppress_warnings=True hides the warning.
FitCandidate ==
    /\ pc = "l65"
    /\ cand <= Len(candidates)
    /\ IF candidates[cand].outcome = "error"
       THEN IF error_action = "raise"
            THEN /\ err' = "LinAlgError"
                 /\ pc' = "raised"
                 /\ UNCHANGED <<cand, fits>>
            ELSE /\ cand' = cand + 1
                 /\ UNCHANGED <<pc, err, fits>>
       ELSE /\ fits' = Append(fits, cand)
            /\ cand' = cand + 1
            /\ UNCHANGED <<pc, err>>
    /\ UNCHANGED <<candidates, model, n_periods, predict_calls, forecast,
                   conf_int, pipelineVars, evalVars>>

\* the kept candidate with the lowest information criterion, the earliest
\* on a tie
BestFit(kept) ==
    CHOOSE c \in {kept[j] : j \in DOMAIN kept} :
       \A e \in {kept[j] : j \in DOMAIN kept} :
          \/ candidates[c].ic < candidates[e].ic
          \/ candidates[c].ic = candidates[e].ic /\ c <= e

\* lines 65-75: the search is over. auto_arima returns the best kept fit,
\* or raises ValueError when it kept none; fit_auto_arima returns what
\* auto_arima returned.
ReturnModel ==
    /\ pc = "l65"
    /\ cand > Len(candidates)
    /\ IF fits = << >>
       THEN /\ err' = "ValueError"
            /\ pc' = "raised"
            /\ model' = model
       ELSE /\ model' = BestFit(fits)
            /\ pc' = "l97"
            /\ err' = err
    /\ UNCHANGED <<candidates, cand, fits, n_periods, predict_calls, forecast,
                   conf_int, pipelineVars, evalVars>>

\* lines 97-102 with a horizon of at least 1: model.predict returns
\* n_periods forecasts and n_periods (lower, upper) rows
ForecastFuture ==
    /\ pc = "l97"
    /\ n_periods >= 1
    /\ predict_calls' = predict_calls + 1
    /\ forecast' = [j \in 1..n_periods |-> [step |-> j, model |-> model]]
    /\ conf_int' = [j \in 1..n_periods |-> <<"lower", "upper">>]
    /\ pc' = "done"
    /\ UNCHANGED <<err, candidates, cand, fits, model, n_periods,
                   pipelineVars, evalVars>>

\* lines 97-102 with a horizon of 0 or less: forecast_future has no check
\* of its own and calls model.predict all the same; the library then
\* either rejects the empty prediction range with ValueError or returns
\* empty arrays
ForecastFutureNonPositive ==
    /\ pc = "l97"
    /\ n_periods <= 0
    /\ predict_calls' = predict_calls + 1
    /\ \/ /\ err' = "ValueError"
          /\ UNCHANGED <<forecast, conf_int>>
       \/ /\ forecast' = << >>
          /\ conf_int' = << >>
          /\ err' = err
    /\ pc' = "done"
    /\ UNCHANGED <<candidates, cand, fits, model, n_periods,
                   pipelineVars, evalVars>>

NextForecast ==
    \/ FitCandidate
    \/ ReturnModel
    \/ ForecastFuture
    \/ ForecastFutureNonPositive

SpecForecast == InitForecast /\ [][NextForecast]_vars

\* ------------------------------------------- forecasting properties
\* C5: with n_periods <= 0 forecast_future fails with InvalidHorizonError
\* and never calls the model's prediction; with n_periods >= 1 it returns
\* forecasts and interval bounds of n_periods entries each.
C5_InvalidHorizon ==
    pc = "done" =>
      IF n_periods <= 0
      THEN err = "InvalidHorizonError" /\ predict_calls = 0
      ELSE /\ err = "none"
           /\ Len(forecast) = n_periods
           /\ Len(conf_int) = n_periods

SearchOver == pc \in {"l97", "done", "raised"}
SomeConverged ==
    \E c \in DOMAIN candidates : candidates[c].outcome = "converged"

\* C8: a candidate whose fit fails to converge or raises is skipped and the
\* search goes on (its error never reaches the caller), the returned model
\* is a converged candidate, and the call fails with ModelFitError exactly
\* when no candidate converges.
C8_SkipFailedCandidates ==
    SearchOver =>
      /\ err # "LinAlgError"
      /\ model \in DOMAIN candidates =>
            candidates[model].outcome = "converged"
      /\ SomeConverged => model \in DOMAIN candidates
      /\ ~SomeConverged => (pc = "raised" /\ err = "ModelFitError")

====
